---- MODULE Spec2Model ----
(***************************************************************************)
(* The hp-adaptivity loops of the hermes-examples drivers.                 *)
(*                                                                         *)
(* Every driver runs the same kind of loop                                 *)
(*   build reference space -> solve on it -> project and estimate errors   *)
(*   -> stop test -> adapt() -> counter / ceilings -> while (!done)        *)
(* but the stop test, the ceilings and the counter differ from driver to   *)
(* driver.  The variable prog selects the driver; every per-driver         *)
(* definition below is translated from that driver's main.cpp.             *)
(*                                                                         *)
(* Errors are counted in units of 1e-5 percent, so that every ERR_STOP of  *)
(* the drivers is an integer.  The mesh, the solver, the projector, the    *)
(* error calculator and Adapt::adapt() belong to the Hermes library: the   *)
(* model draws their results from small sets.                              *)
(***************************************************************************)
EXTENDS Integers, Sequences, FiniteSets, TLC

\* ------------------------------------------------------------------------
\* Bounds of the model
\* ------------------------------------------------------------------------

\* Loop bodies one run of a stationary driver's loop may start (the drivers
\* without a step ceiling have no bound of their own).
MaxIter == 32

\* Loop bodies one run of a transient driver's spatial loop may start.
MaxIterT == 2

\* Time steps a transient driver may make.
MaxTs == 2

\* Largest number of DOFs one adapt() call adds.
MaxDelta == 2

\* Largest number of DOFs one global derefinement removes.
MaxUnref == 1

\* Distance of the initial coarse DOF count below NDOF_STOP.
DofMargin == 2

\* Initial coarse DOF count of the drivers that have no NDOF_STOP.
BaseDof == 4

\* Largest number of DOFs the reference space has more than the coarse one.
MaxRefExtra == 1

\* Largest number of DOFs the coarse space may have more than at the start.
MaxGrowth == 4

\* Time steps the circular-obstacle run makes (T_FINAL / TAU).
MaxSteps == 4

\* End of the time interval of joukowski-profile (t < 10.0), in time units.
EulerTFinal == 4

\* Largest time step the CFL calculation of joukowski-profile sets, in the
\* same units.
MaxTau == 2

\* Records on the disk up to which a joukowski-profile run is interrupted.
MaxRecords == 3

\* Largest UNREF_FREQ a transient driver is built with.
MaxUnrefFreq == 3

\* Changes of the time step one run of wall-on-fire may make.
MaxTauChanges == 1

\* ------------------------------------------------------------------------
\* The drivers
\* ------------------------------------------------------------------------

\* 1d/layer-boundary, 1d/system, horn-axisym, 4-group-adapt, saphir, lshape,
\* 2d-benchmarks-general/layer-boundary, layer-interior
Stationary == {"lb1d", "sys1d", "horn", "g4", "saphir", "lshape", "lb2d", "li"}

\* wall-on-fire-adapt, nernst-planck/poisson-timedep-adapt, seepage-adapt
Transient == {"wof", "np", "seep"}

Progs == Stationary \cup Transient

\* Number of solution components (fields) of the driver.
NumFields(p) ==
  CASE p \in {"sys1d", "np"} -> 2
    [] p = "g4"              -> 4
    [] OTHER                 -> 1

\* ERR_STOP of each driver, in units of 1e-5 percent (wall-on-fire-adapt
\* declares an ERR_STOP too but never reads it).
ERR_STOP(p) ==
  CASE p = "lb1d"   -> 100
    [] p = "sys1d"  -> 10000
    [] p = "horn"   -> 100000
    [] p = "g4"     -> 50000
    [] p = "saphir" -> 10000
    [] p = "lshape" -> 10
    [] p = "lb2d"   -> 1
    [] p = "li"     -> 1
    [] p = "np"     -> 10000
    [] p = "seep"   -> 50000

\* Space error tolerance of wall-on-fire-adapt, in units of 1e-5 percent.
SPACE_ERR_TOL == 1000000

\* The tolerance the stop test of the driver compares an error with.
StopTol(p) == IF p = "wof" THEN SPACE_ERR_TOL ELSE ERR_STOP(p)

\* The drivers that define NDOF_STOP and test it in the loop.
HasDofStop(p) == p \in {"lb1d", "horn", "g4", "seep"}

NDOF_STOP(p) ==
  CASE p = "lb1d" -> 1000
    [] p = "horn" -> 60000
    [] p = "g4"   -> 100000
    [] p = "seep" -> 60000

\* The only step ceiling of the repository (4-group-adapt).
MAX_ADAPT_NUM == 30

HasStepStop(p) == p = "g4"

\* Every UNREF_FREQth time step the mesh is derefined (all three transient
\* drivers set 1).
UNREF_FREQ == 1

\* UNREF_FREQ is a parameter set in the source before the build: the value
\* of the source and the larger ones up to the bound.
UnrefFreqs == UNREF_FREQ..MaxUnrefFreq

\* The drivers that compute the exact error next to the estimate.
HasExact(p) == p \in {"lb1d", "sys1d", "lshape", "lb2d", "li"}

\* The calculate_errors() calls on the shared errorCalculator with the
\* estimate taken before the exact error.
CalcCalls_EstimateFirst(p) ==
  IF HasExact(p) THEN <<"est", "exact">> ELSE <<"est">>

\* The calculate_errors() calls of one loop body on errorCalculator, in the
\* order of the source: against the exact solution where there is one, then
\* against the reference solution.
CalcCalls(p) == IF HasExact(p) THEN <<"exact", "est">> ELSE <<"est">>

\* What the element errors of a calculator come from after a sequence of
\* calculate_errors() calls: every call overwrites them.
HeldAfter(calls) == calls[Len(calls)]

\* The drivers whose stop test reads err_exact_rel instead of the estimate.
StopReadsExact(p) == p \in {"lb1d", "lshape", "li"}

\* The error calculator whose total the stop test reads.
StopCalculator(p) == IF p = "g4" THEN "L2errorCalculator" ELSE "errorCalculator"

\* The error calculator handed to the Adapt object that adapt() is called on.
AdaptCalculator(p) == IF p = "g4" THEN "H1errorCalculator" ELSE "errorCalculator"

\* The drivers that project the reference solution onto the coarse space
\* (in 4-group-adapt the projection call is commented out).
Projects(p) == p # "g4"

\* ------------------------------------------------------------------------
\* Values the library hands back
\* ------------------------------------------------------------------------

NoErr == -1

\* Errors a calculator can report for one field.
ErrSamples(p) == {0, StopTol(p) - 1, StopTol(p)}

RECURSIVE SumSeq(_)
SumSeq(s) == IF s = <<>> THEN 0 ELSE Head(s) + SumSeq(Tail(s))

\* get_total_error_squared() with RelativeErrorToGlobalNorm: the per-field
\* errors, all normalised by the one global norm, add up to the total.
TotalError(errs) == SumSeq(errs)

FieldErrors(p) == [1..NumFields(p) -> ErrSamples(p)]

\* DOFs added by one adapt() call.
AdaptDeltas == 0..MaxDelta

\* DOFs removed by one global derefinement.
UnrefDeltas == 0..MaxUnref

\* DOF counts the reference space of a coarse space with nd DOFs may have:
\* the reference mesh is the coarse mesh with every element refined, the
\* polynomial degrees raised by order_increase.
RefSpaceDofs(nd) == {nd + k : k \in 0..MaxRefExtra}

InitDof(p) == IF HasDofStop(p) THEN NDOF_STOP(p) - DofMargin ELSE BaseDof

IterCap(p) == IF p \in Transient THEN MaxIterT ELSE MaxIter

\* ------------------------------------------------------------------------
\* State
\* ------------------------------------------------------------------------

VARIABLES
  prog,          \* the driver that runs
  pc,            \* position of the controller
  ts,            \* number of the time step (transient drivers, obstacle)
  requested,     \* ADAPTIVE_TIME_STEP_ON as set in the source (wall-on-fire)
  adaptive,      \* ADAPTIVE_TIME_STEP_ON after the start-up check
  unref_freq,    \* UNREF_FREQ the driver was built with (transient drivers)
  derefined,     \* time steps that began with the global derefinement
  sln_prev_time, \* previous time level: its level and the space it lives on
  current_time,  \* the time steps added to current_time (wall-on-fire,
                 \* circular-obstacle)
  time_err,      \* class of rel_err_time of this loop body, "none" = not computed
  embedded,      \* bt.is_embedded() (wall-on-fire)
  time_step,     \* time_step = 20 * 0.8^dec * 1.1^inc (wall-on-fire); in
                 \* joukowski-profile the time step in time units
  rk_time_step,  \* time step of the last Runge-Kutta step (wall-on-fire)
  as,            \* counter of adaptivity steps
  done,          \* the done flag of the loop
  iter,          \* loop bodies started in this run of the loop
  ndof,          \* total DOF count of the coarse space(s)
  space_ver,     \* version of the coarse space: +1 at every change of it
  ref_ver,       \* coarse-space version the reference space was built from
  ndof_ref,      \* DOF count of the reference space, 0 outside the loop body
  sln_ver,       \* coarse-space version the coarse solution lives on, 0 = unset
  sln_at,        \* <<time step, loop body>> the coarse solution was made in
  diag,          \* outcome of the diagnostic output just attempted
  est_ver,       \* coarse-space version of the last error estimate, 0 = none
  group_err,     \* per-field errors of the estimate the stop test reads
  err_est,       \* their total (err_est_rel, err_est_rel_total, l2_err_est)
  err_exact,     \* err_exact_rel, NoErr where it is not computed
  calc_holds,    \* what the element errors of each calculator come from
  solver_status, \* outcome of the last reference solve
  adapt_ret,     \* what adapt() returned in this iteration, "none" = not called
  adapt_calc,    \* calculator and kind of the errors the last adapt() used
  n_adapt,       \* adapt() calls made in this run of the loop
  checked,       \* stop criteria evaluated in this iteration
  REUSE_SOLUTION, \* REUSE_SOLUTION as set in the source (joukowski-profile)
  t_now,         \* the time t of the time-stepping loop (joukowski-profile)
  iteration,     \* the counter of time steps (joukowski-profile)
  records,       \* the records of the Continuity object on the disk
  prev_sln,      \* prev_rho, prev_rho_v_x, prev_rho_v_y, prev_e: the time
                 \* steps applied to them and the time they stand for
  killed_at,     \* <<t, iteration, prev_sln, time_step>> at the top of the
                 \* loop where the last run was interrupted, <<>> = none
  vel_prev_time, \* xvel_prev_time, yvel_prev_time, p_prev_time
                 \* (circular-obstacle): time step and kind of their values
  sln_vector     \* newton.get_sln_vector() (circular-obstacle)

vars == <<prog, pc, ts, requested, adaptive, embedded, unref_freq, derefined,
          sln_prev_time, current_time, time_err, time_step, rk_time_step, as,
          done, iter, ndof,
          space_ver, ref_ver, ndof_ref, sln_ver, sln_at, diag, est_ver,
          group_err, err_est, err_exact, calc_holds, solver_status, adapt_ret,
          adapt_calc, n_adapt, checked, REUSE_SOLUTION, t_now, iteration,
          records, prev_sln, killed_at, vel_prev_time, sln_vector>>

\* The state of the two drivers with a plain time-stepping loop.
steps_vars == <<REUSE_SOLUTION, t_now, iteration, records, prev_sln,
                killed_at, vel_prev_time, sln_vector>>

\* The state that only the drivers with an adaptivity loop use.
adapt_vars == <<requested, adaptive, embedded, unref_freq, derefined,
                sln_prev_time, time_err, rk_time_step, as, done, iter, ndof,
                space_ver, ref_ver, ndof_ref, sln_ver, sln_at, diag, est_ver,
                group_err, err_est, err_exact, calc_holds, adapt_ret,
                adapt_calc, n_adapt, checked>>

\* The configuration, fixed at start-up.
config == <<prog, requested, adaptive, embedded, unref_freq>>

Calculators == {"errorCalculator", "H1errorCalculator", "L2errorCalculator"}

\* ------------------------------------------------------------------------
\* The stop test and the end of the loop body, per driver
\* ------------------------------------------------------------------------

\* The stop test reading the error of the first field only.
StopTest_FirstField(p, est, exact, nd) ==
  CASE p = "lb1d"             -> exact < ERR_STOP(p) \/ nd >= NDOF_STOP(p)
    [] p \in {"lshape", "li"} -> exact < ERR_STOP(p)
    [] p = "wof"              -> est < SPACE_ERR_TOL
    [] OTHER                  -> group_err[1] < ERR_STOP(p)

\* The stop test of 1d/layer-boundary without its NDOF_STOP operand.
StopTest_NoDofTest(p, est, exact, nd) ==
  CASE p \in {"lb1d", "lshape", "li"} -> exact < ERR_STOP(p)
    [] p = "wof"                      -> est < SPACE_ERR_TOL
    [] OTHER                          -> est < ERR_STOP(p)

\* The condition of the if that guards adapt().
StopTest(p, est, exact, nd) ==
  CASE p = "lb1d"             -> exact < ERR_STOP(p) \/ nd >= NDOF_STOP(p)
    [] p \in {"lshape", "li"} -> exact < ERR_STOP(p)
    [] p = "wof"              -> est < SPACE_ERR_TOL
    [] OTHER                  -> est < ERR_STOP(p)

\* The criteria that the evaluation of that condition reads.
StopTestReads(p, est, exact, nd) ==
  CASE p = "lb1d"             -> IF exact < ERR_STOP(p) THEN {"exact"}
                                 ELSE {"exact", "dof"}
    [] p \in {"lshape", "li"} -> {"exact"}
    [] OTHER                  -> {"est"}

\* The counter of adaptivity steps never incremented.
AsAtEnd_Unchanged(p, viaAdapt, d, nd, a) == a

\* as at the end of the loop body.  viaAdapt: adapt() was called in this
\* iteration, d: the done flag after the if/else, nd: the coarse DOF count.
AsAtEnd(p, viaAdapt, d, nd, a) ==
  CASE p \in {"lb1d", "lshape", "li"} -> IF d THEN a ELSE a + 1
    [] p = "saphir" -> IF viaAdapt /\ ~d THEN a + 1 ELSE a
    [] p \in {"wof", "np"} -> IF viaAdapt THEN a + 1 ELSE a
    [] p = "seep"   -> IF viaAdapt /\ nd < NDOF_STOP(p) THEN a + 1 ELSE a
    [] OTHER        -> a + 1

\* The DOF ceiling of horn-axisym compared the wrong way round.
DoneAtEnd_FlippedDofTest(p, viaAdapt, d, nd, a2) ==
  CASE p = "horn" -> d \/ nd <= NDOF_STOP(p)
    [] p = "g4"   -> d \/ (viaAdapt /\ nd >= NDOF_STOP(p)) \/ a2 >= MAX_ADAPT_NUM
    [] p = "seep" -> d \/ (viaAdapt /\ nd >= NDOF_STOP(p))
    [] OTHER      -> d

\* The step ceiling of 4-group-adapt one step late: as > MAX_ADAPT_NUM.
DoneAtEnd_StepCeilingLate(p, viaAdapt, d, nd, a2) ==
  CASE p = "horn" -> d \/ nd >= NDOF_STOP(p)
    [] p = "g4"   -> d \/ (viaAdapt /\ nd >= NDOF_STOP(p)) \/ a2 > MAX_ADAPT_NUM
    [] p = "seep" -> d \/ (viaAdapt /\ nd >= NDOF_STOP(p))
    [] OTHER      -> d

\* The done flag at the while (done == false).  a2: as after its increment.
DoneAtEnd(p, viaAdapt, d, nd, a2) ==
  CASE p = "horn" -> d \/ nd >= NDOF_STOP(p)
    [] p = "g4"   -> d \/ (viaAdapt /\ nd >= NDOF_STOP(p)) \/ a2 >= MAX_ADAPT_NUM
    [] p = "seep" -> d \/ (viaAdapt /\ nd >= NDOF_STOP(p))
    [] OTHER      -> d

\* The ceilings read between the if/else and the end of the loop body.
EndReads(p, viaAdapt) ==
  CASE p = "horn" -> {"dof"}
    [] p = "g4"   -> IF viaAdapt THEN {"dof", "step"} ELSE {"step"}
    [] p = "seep" -> IF viaAdapt THEN {"dof"} ELSE {}
    [] OTHER      -> {}

\* ------------------------------------------------------------------------
\* Init
\* ------------------------------------------------------------------------

\* The start-up check left out: adaptive time stepping stays as requested.
AdaptiveAfterStartup_Unchecked(on, emb) == on

\* ADAPTIVE_TIME_STEP_ON after the start-up check of wall-on-fire: it is
\* turned off when the Runge-Kutta method is not embedded.
AdaptiveAfterStartup(on, emb) == IF emb = FALSE /\ on = TRUE THEN FALSE ELSE on

Init ==
  /\ prog \in Progs
  /\ pc = IF prog \in Transient THEN "ts_begin" ELSE "build"
  /\ ts = 1
  /\ embedded \in (IF prog = "wof" THEN BOOLEAN ELSE {FALSE})
  /\ requested \in (IF prog = "wof" THEN BOOLEAN ELSE {FALSE})
  /\ adaptive = AdaptiveAfterStartup(requested, embedded)
  /\ unref_freq \in (IF prog \in Transient THEN UnrefFreqs ELSE {UNREF_FREQ})
  /\ derefined = {}
  /\ sln_prev_time = [level |-> 0, on |-> 0]
  /\ current_time = <<>>
  /\ time_err = "none"
  /\ time_step = [dec |-> 0, inc |-> 0]
  /\ rk_time_step = [dec |-> 0, inc |-> 0]
  /\ as = 1
  /\ done = FALSE
  /\ iter = 0
  /\ ndof = InitDof(prog)
  /\ space_ver = 1
  /\ ref_ver = 0
  /\ ndof_ref = 0
  /\ sln_ver = 0
  /\ sln_at = <<0, 0>>
  /\ diag = "none"
  /\ est_ver = 0
  /\ group_err = <<>>
  /\ err_est = NoErr
  /\ err_exact = NoErr
  /\ calc_holds = [c \in Calculators |-> "none"]
  /\ solver_status = "none"
  /\ adapt_ret = "none"
  /\ adapt_calc = <<"none", "none">>
  /\ n_adapt = 0
  /\ checked = {}
  /\ REUSE_SOLUTION = FALSE
  /\ t_now = 0
  /\ iteration = 0
  /\ records = <<>>
  /\ prev_sln = [steps |-> 0, time |-> 0]
  /\ killed_at = <<>>
  /\ vel_prev_time = [of |-> 0, kind |-> "zero"]
  /\ sln_vector = [of |-> 0, kind |-> "unset"]

\* ------------------------------------------------------------------------
\* The time-stepping loop of the transient drivers
\* ------------------------------------------------------------------------

\* The derefinement done at the top of every time step but the first.
DerefineNow_EveryStep(t) == t > 1

\* The condition of the periodic global derefinement.
DerefineNow(t) == t > 1 /\ t % unref_freq = 0

\* The step counter declared in front of the time-stepping loop and carried
\* from one time step into the next.
AsAtLoopStart_Carried(a) == a

\* "bool done = false; int as = 1;" in the body of the time-stepping loop,
\* in front of the spatial adaptivity loop: both start afresh in every
\* time step.
AsAtLoopStart(a) == 1

DoneAtLoopStart(d) == FALSE

\* Top of the time-stepping loop: the periodic global derefinement, then
\* "bool done = false; int as = 1;" in front of the spatial adaptivity loop.
TimeStepBegin ==
  /\ pc = "ts_begin"
  /\ UNCHANGED steps_vars
  /\ IF DerefineNow(ts)
     THEN /\ \E u \in UnrefDeltas : ndof' = IF ndof - u < 1 THEN 1 ELSE ndof - u
          /\ space_ver' = space_ver + 1
     ELSE UNCHANGED <<ndof, space_ver>>
  /\ derefined' = IF DerefineNow(ts) THEN derefined \cup {ts} ELSE derefined
  /\ done' = DoneAtLoopStart(done)
  /\ as' = AsAtLoopStart(as)
  /\ iter' = 0
  /\ n_adapt' = 0
  /\ adapt_ret' = "none"
  /\ checked' = {}
  /\ group_err' = <<>>
  /\ err_est' = NoErr
  /\ err_exact' = NoErr
  /\ pc' = "build"
  /\ UNCHANGED rk_time_step
  /\ UNCHANGED <<config, ts, time_step, ref_ver, ndof_ref, sln_ver, sln_at,
                 diag, est_ver, calc_holds, solver_status, adapt_calc,
                 sln_prev_time, current_time, time_err>>

\* After the spatial loop: the last reference solution becomes the previous
\* time level, the time-step counter goes up and the loop condition is read.
TimeStepEnd ==
  /\ pc = "done"
  /\ UNCHANGED steps_vars
  /\ prog \in Transient
  /\ ts' = ts + 1
  /\ sln_prev_time' = [level |-> ts, on |-> ref_ver]
  /\ current_time' = IF prog = "wof" THEN Append(current_time, time_step)
                     ELSE current_time
  /\ \E more \in BOOLEAN :
       /\ more => ts < MaxTs
       /\ pc' = IF more THEN "ts_begin" ELSE "finished"
  /\ UNCHANGED rk_time_step
  /\ UNCHANGED <<config, time_step, as, done, iter, ndof, space_ver, ref_ver,
                 ndof_ref, sln_ver, sln_at, diag, est_ver, group_err, err_est,
                 err_exact, calc_holds, solver_status, adapt_ret, adapt_calc,
                 n_adapt, checked, derefined, time_err>>

\* ------------------------------------------------------------------------
\* The adaptivity loop
\* ------------------------------------------------------------------------

\* A failed reference solve that is swallowed: the loop goes on to the
\* projection with whatever the reference solution holds.
SolveFailTarget_Swallowed == "estimate"

\* Where a failed reference solve leaves the controller.
SolveFailTarget == "aborted"

\* The reference mesh made by refining the coarse mesh itself instead of a
\* copy of it: the coarse space grows with every reference build.
CoarseDofsAfterBuild_InPlace(nd) == nd + 1

\* The coarse DOF count after the reference mesh and space were made: the
\* reference mesh is a refined copy, the coarse mesh and space stay as they
\* are.
CoarseDofsAfterBuild(nd) == nd

\* The reference space built once, in the first iteration, and used again
\* in the later ones although adapt() has changed the coarse space.
RefSourceVer_BuiltOnce(sv, rv) == IF rv = 0 THEN sv ELSE rv

\* The version of the coarse space the reference mesh and space are created
\* from: the creators are constructed in the loop body on the current mesh
\* and space.
RefSourceVer(sv, rv) == sv

\* The projection of the function f onto the reference space of coarse
\* space v.  The initial condition (level 0) is a constant, which every
\* space holds exactly; any other function becomes a function of that
\* reference space.
ProjectOnto(f, v) == IF f.level = 0 THEN f ELSE [f EXCEPT !.on = v]

\* wall-on-fire projects sln_prev_time onto the new reference space at the
\* top of every loop body and stores the projection in sln_prev_time itself.
ProjectsPrevTime(p) == p = "wof"

\* BUILD_REFERENCE: top of the loop body; the reference mesh and space are
\* created from the coarse ones.  The variables declared in the body start
\* afresh.  (A failure of wall-on-fire's projection ends main like a failed
\* Runge-Kutta step; both are drawn in SolveReference.)
BuildReference ==
  /\ pc = "build"
  /\ UNCHANGED steps_vars
  /\ iter < IterCap(prog)
  /\ pc' = "solve"
  /\ iter' = iter + 1
  /\ ref_ver' = RefSourceVer(space_ver, ref_ver)
  /\ ndof_ref' \in RefSpaceDofs(ndof)
  /\ ndof' = CoarseDofsAfterBuild(ndof)
  /\ group_err' = <<>>
  /\ err_est' = NoErr
  /\ err_exact' = NoErr
  /\ adapt_ret' = "none"
  /\ checked' = {}
  /\ calc_holds' = IF prog = "g4" THEN [c \in Calculators |-> "none"]
                   ELSE calc_holds
  /\ sln_prev_time' = IF ProjectsPrevTime(prog)
                      THEN ProjectOnto(sln_prev_time,
                                       RefSourceVer(space_ver, ref_ver))
                      ELSE sln_prev_time
  /\ time_err' = "none"
  /\ UNCHANGED rk_time_step
  /\ UNCHANGED <<config, ts, time_step, as, done, space_ver, sln_ver, sln_at,
                 diag, est_ver, solver_status, adapt_calc, n_adapt, derefined,
                 current_time>>

\* The temporal error classes wall-on-fire tells apart after the Runge-Kutta
\* step: above TIME_ERR_TOL_UPPER, below TIME_ERR_TOL_LOWER, in between.
TimeErrClasses == {"above", "below", "within"}

\* The class of rel_err_time the adaptive branch reads: rel_err_time is
\* computed only with an embedded method and is 0 otherwise, which is
\* below TIME_ERR_TOL_LOWER.
RelErrTimeClass(emb, cls) == IF emb THEN cls ELSE "below"

\* time_step *= TIME_STEP_DEC_RATIO and time_step *= TIME_STEP_INC_RATIO.
DecreaseTimeStep(tau) == [tau EXCEPT !.dec = @ + 1]

IncreaseTimeStep(tau) == [tau EXCEPT !.inc = @ + 1]

\* Number of changes the time step has gone through.
TauChanges(tau) == tau.dec + tau.inc

\* The time step after the temporal error control.
TimeStepAfter(cls, tau) ==
  CASE cls = "above" -> DecreaseTimeStep(tau)
    [] cls = "below" -> IncreaseTimeStep(tau)
    [] OTHER         -> tau

\* The temporal error control that goes on to the spatial error estimate
\* also when the temporal error is above the upper limit.
TimeErrTarget_NoRestart(cls) == "estimate"

\* The temporal error control that repeats the time step also when it has
\* lengthened it.
TimeErrTarget_RepeatOnIncrease(cls) ==
  IF cls = "within" THEN "estimate" ELSE "build"

\* Where the temporal error control goes: above the upper limit
\* "continue" restarts the loop body, otherwise the body goes on.
TimeErrTarget(cls) == IF cls = "above" THEN "build" ELSE "estimate"

\* SOLVE_REFERENCE: the solve on the reference space either succeeds or
\* fails; the failure is thrown on (or error() / return -1 ends main).
\* wall-on-fire computes the temporal error when the method is embedded;
\* with adaptive time stepping it then shortens the time step and restarts
\* the loop body (continue) above the upper limit, and lengthens the time
\* step below the lower limit.  The Runge-Kutta step itself is made with
\* the time step as it is before that.
SolveReference ==
  /\ pc = "solve"
  /\ UNCHANGED steps_vars
  /\ rk_time_step' = IF prog = "wof" THEN time_step ELSE rk_time_step
  /\ \E ok \in BOOLEAN, cls \in TimeErrClasses :
       /\ solver_status' = IF ok THEN "ok" ELSE "failed"
       /\ IF ~ok
          THEN /\ pc' = SolveFailTarget
               /\ cls = "within"
               /\ UNCHANGED <<time_step, time_err>>
          ELSE IF prog = "wof"
          THEN /\ embedded \/ cls = "within"
               /\ time_err' = IF embedded THEN cls ELSE "none"
               /\ IF adaptive
                  THEN LET c == RelErrTimeClass(embedded, cls)
                       IN  /\ c = "within" \/ TauChanges(time_step) < MaxTauChanges
                           /\ time_step' = TimeStepAfter(c, time_step)
                           /\ pc' = TimeErrTarget(c)
                  ELSE /\ UNCHANGED time_step
                       /\ pc' = "estimate"
          ELSE /\ cls = "within"
               /\ UNCHANGED <<time_step, time_err>>
               /\ pc' = "estimate"
  /\ UNCHANGED <<config, ts, as, done, iter, ndof, space_ver, ref_ver, ndof_ref,
                 sln_ver, sln_at, diag, est_ver, group_err, err_est, err_exact,
                 calc_holds, adapt_ret, adapt_calc, n_adapt, checked,
                 derefined, sln_prev_time, current_time>>

\* What an attempt at diagnostic output (the exact-error computation, a
\* convergence graph saved to a file, a view or a screenshot) can end in:
\* it worked, it failed without an exception, it threw an exception.
DiagOutcomes == {"ok", "failed", "thrown"}

\* Where an exception thrown by diagnostic output leaves the controller:
\* no driver has a handler around its diagnostic calls (layer-interior
\* catches every exception of the loop and throws it on), so main ends.
DiagThrowTarget == "aborted"

\* ESTIMATE_ERROR: project the reference solution onto the coarse space,
\* then calculate_errors() against the exact solution (where there is one)
\* and against the reference solution, in this order; then the views and
\* the convergence graphs of the iteration.
EstimateError ==
  /\ pc = "estimate"
  /\ UNCHANGED steps_vars
  /\ \E dg \in DiagOutcomes :
       /\ diag' = dg
       /\ IF dg = "thrown"
          THEN /\ pc' = DiagThrowTarget
               /\ UNCHANGED <<sln_ver, sln_at, group_err, err_est, err_exact,
                              est_ver, calc_holds>>
          ELSE /\ pc' = "check"
               /\ sln_ver' = IF Projects(prog) THEN space_ver ELSE sln_ver
               /\ sln_at' = IF Projects(prog) THEN <<ts, iter>> ELSE sln_at
               /\ \E errs \in FieldErrors(prog), exact \in ErrSamples(prog) :
                    /\ group_err' = errs
                    /\ err_est' = TotalError(errs)
                    /\ err_exact' = IF HasExact(prog) THEN exact ELSE NoErr
                    /\ HasExact(prog) \/ exact = 0
               /\ est_ver' = space_ver
               /\ calc_holds' =
                    IF prog = "g4"
                    THEN [c \in Calculators |->
                            IF c = "errorCalculator" THEN "none" ELSE "est"]
                    ELSE [calc_holds EXCEPT
                            !["errorCalculator"] = HeldAfter(CalcCalls(prog))]
  /\ time_err' = "none"
  /\ UNCHANGED rk_time_step
  /\ UNCHANGED <<config, ts, time_step, as, done, iter, ndof, space_ver,
                 ref_ver, ndof_ref, solver_status, adapt_ret, adapt_calc,
                 n_adapt, checked, derefined, sln_prev_time, current_time>>

\* The loop condition the wrong way round: while (done).
LoopAgain_Inverted(d) == d = TRUE

\* The loop condition: while (done == false).
LoopAgain(d) == d = FALSE

\* The end of the loop body and the loop condition; ref_space, declared in
\* the body, ends with it.
EndOfBody(viaAdapt, d, nd) ==
  LET a2 == AsAtEnd(prog, viaAdapt, d, nd, as)
      d2 == DoneAtEnd(prog, viaAdapt, d, nd, a2)
  IN  /\ done' = d2
      /\ as' = a2
      /\ pc' = IF LoopAgain(d2) THEN "build" ELSE "done"
      /\ ndof_ref' = 0

\* CHECK_STOP: the if that guards adapt().  When it holds, done = true and
\* the rest of the loop body follows; otherwise adapt() is called next.
CheckStop ==
  /\ pc = "check"
  /\ UNCHANGED steps_vars
  /\ LET stop == StopTest(prog, err_est, err_exact, ndof)
         rd   == StopTestReads(prog, err_est, err_exact, ndof)
     IN  IF stop
         THEN /\ EndOfBody(FALSE, TRUE, ndof)
              /\ checked' = rd \cup EndReads(prog, FALSE)
         ELSE /\ pc' = "adapt"
              /\ checked' = rd
              /\ UNCHANGED <<as, done, ndof_ref>>
  /\ diag' = "none"
  /\ UNCHANGED rk_time_step
  /\ UNCHANGED <<config, ts, time_step, iter, ndof, space_ver, ref_ver,
                 sln_ver, sln_at, est_ver, group_err, err_est, err_exact,
                 calc_holds, solver_status, adapt_ret, adapt_calc, n_adapt,
                 derefined, sln_prev_time, current_time, time_err>>

\* SELECT_AND_REFINE: done = adapt(); adapt() returns true when it refined
\* no element, otherwise it has changed the coarse space in place.  The
\* rest of the loop body follows.
SelectAndRefine ==
  /\ pc = "adapt"
  /\ UNCHANGED steps_vars
  /\ \E ret \in BOOLEAN, d \in AdaptDeltas :
       /\ ret => d = 0
       /\ ndof + d <= InitDof(prog) + MaxGrowth
       /\ adapt_ret' = IF ret THEN "true" ELSE "false"
       /\ ndof' = ndof + d
       /\ space_ver' = IF ret THEN space_ver ELSE space_ver + 1
       /\ EndOfBody(TRUE, ret, ndof + d)
  /\ adapt_calc' = <<AdaptCalculator(prog), calc_holds[AdaptCalculator(prog)]>>
  /\ n_adapt' = n_adapt + 1
  /\ checked' = checked \cup EndReads(prog, TRUE)
  /\ UNCHANGED rk_time_step
  /\ UNCHANGED <<config, ts, time_step, iter, ref_ver, sln_ver, sln_at,
                 diag, est_ver, group_err, err_est, err_exact, calc_holds,
                 solver_status, derefined, sln_prev_time, current_time,
                 time_err>>

Next ==
  \/ TimeStepBegin
  \/ BuildReference
  \/ SolveReference
  \/ EstimateError
  \/ CheckStop
  \/ SelectAndRefine
  \/ TimeStepEnd

Spec == Init /\ [][Next]_vars

PcValues == {"ts_begin", "build", "solve", "estimate", "check", "adapt",
             "done", "aborted", "finished"}

TypeOK ==
  /\ prog \in Progs
  /\ pc \in PcValues
  /\ as \in 1..(MaxIter + 1)
  /\ done \in BOOLEAN
  /\ iter \in 0..MaxIter
  /\ ndof \in Nat
  /\ ts \in 1..(MaxTs + 1)

\* ------------------------------------------------------------------------
\* Claims
\* ------------------------------------------------------------------------

\* The three stop criteria of the specification's StoppingPolicy, read on
\* the state at the stop test.
ErrCriterion == err_est < StopTol(prog)
DofCriterion == HasDofStop(prog) /\ ndof >= NDOF_STOP(prog)
StepCriterion == HasStepStop(prog) /\ as >= MAX_ADAPT_NUM

\* C1: at the stop test, each of the three criteria alone (error estimate
\* below the tolerance, coarse DOF count at the ceiling, step count at the
\* ceiling) sends the loop to DONE in that iteration without a call of
\* adapt().  The drivers that test err_exact_rel break it.
C1_AnyCriterionStops ==
  [][(pc = "check" /\ (ErrCriterion \/ DofCriterion \/ StepCriterion))
       => (pc' = "done" /\ n_adapt' = n_adapt)]_vars

\* C2: every loop ends within MAX_ADAPT_STEPS iterations, whatever the
\* collaborators do: no run of a loop starts more loop bodies than the step
\* ceiling.  The loops without a step ceiling break it.
C2_EndsWithinStepCeiling == iter <= MAX_ADAPT_NUM

\* C3: in every loop the DOF ceiling is evaluated in each iteration in
\* which the error criterion is not met (adapt() is called).  The loops
\* that never test NDOF_STOP break it.
C3_DofCeilingEvaluated == adapt_ret # "none" => "dof" \in checked

\* C4: a failed reference solve aborts the whole adaptivity invocation: the
\* failing step and every later one leave the controller aborted, with no
\* projection, no error estimate, no adapt() call and no change of the
\* coarse space.
C4_FailedSolveAborts ==
  [][(solver_status' = "failed" \/ solver_status = "failed")
       => /\ pc' = "aborted"
          /\ UNCHANGED <<ndof, space_ver, sln_ver, est_ver, group_err, err_est,
                         err_exact, calc_holds, n_adapt, adapt_ret, as, done>>]_vars

\* C4 witness: the reference solve failed in a later step, after adapt()
\* had already refined the coarse space.
C4_Witness ==
  /\ solver_status = "failed"
  /\ pc = "aborted"
  /\ n_adapt >= 1
  /\ sln_ver # 0

\* C5: the exact error is diagnostic only: with the same error estimate and
\* the same DOF count, a different exact error gives the same stop/refine
\* decision.  The drivers that test err_exact_rel break it.
C5_ExactErrorNotDeciding ==
  pc = "check" =>
    \A e2 \in ErrSamples(prog) :
      StopTest(prog, err_est, e2, ndof) = StopTest(prog, err_est, err_exact, ndof)

\* The drivers with several fields.
MultiField == NumFields(prog) > 1

\* The loop ended at the stop test (adapt() was not called in the last
\* iteration): in the multi-field drivers the stop test is the error
\* criterion alone.
DoneByStopTest == pc = "done" /\ adapt_ret = "none"

\* One field alone is below the tolerance while the total is not.
OneFieldConverged ==
  /\ group_err # <<>>
  /\ \E i \in 1..Len(group_err) : group_err[i] < StopTol(prog)
  /\ err_est >= StopTol(prog)

\* C6 as stated: in the multi-field loops the error criterion ends the loop
\* only on the combined total, one converged field does not end it, and the
\* total of the stop test is the estimate that drives refinement.
C6_StopTotalDrivesRefinement ==
  MultiField =>
    /\ DoneByStopTest => (err_est = TotalError(group_err) /\ err_est < StopTol(prog))
    /\ DoneByStopTest => ~OneFieldConverged
    /\ adapt_ret # "none" => adapt_calc = <<StopCalculator(prog), "est">>

\* C6 amended: in the multi-field loops the error criterion ends the loop
\* only on the combined total of the estimate the stop test reads, and one
\* converged field does not end it; in 1d/system and nernst-planck that
\* estimate also drives refinement, in 4-group-adapt the stop test reads
\* the L2 total while adapt() works on the H1 element errors.
C6_StopOnCombinedTotal ==
  MultiField =>
    /\ DoneByStopTest => (err_est = TotalError(group_err) /\ err_est < StopTol(prog))
    /\ DoneByStopTest => ~OneFieldConverged
    /\ adapt_ret # "none" =>
         /\ err_est >= StopTol(prog)
         /\ adapt_calc = <<AdaptCalculator(prog), "est">>
         /\ (prog # "g4" => AdaptCalculator(prog) = StopCalculator(prog))
         /\ (prog = "g4" => /\ StopCalculator(prog) = "L2errorCalculator"
                            /\ adapt_calc[1] = "H1errorCalculator")

\* C6 witness: one field is below the tolerance, the total is not, and the
\* loop went on to adapt().
C6_Witness == MultiField /\ OneFieldConverged /\ adapt_ret = "false"

\* C7 as stated: the controller moves build -> solve -> estimate -> check,
\* DONE is entered from the stop test only, and every adapt() is followed
\* by a new reference build.
C7_FixedOrder ==
  [][/\ pc = "build" => pc' = "solve"
     /\ pc = "solve" => pc' \in {"estimate", "aborted"}
     /\ pc = "estimate" => pc' \in {"check", "aborted"}
     /\ pc = "check" => pc' \in {"adapt", "done"}
     /\ pc' = "done" => pc = "check"
     /\ pc = "adapt" => pc' = "build"]_vars

\* C7 amended: the controller moves build -> solve -> estimate -> check
\* (a failed solve or an exception out of the diagnostic output aborts; wall-on-fire with adaptive time stepping goes
\* from the solve back to build when the temporal error is too large);
\* DONE is entered from the stop test or from the end of an iteration that
\* called adapt() (adapt() returned true, or a ceiling tested after it was
\* hit), always with done set; an adapt() that leaves done false is
\* followed by a new reference build.
C7_OrderWithAdaptExit ==
  [][/\ pc = "build" => pc' = "solve"
     /\ pc = "solve" =>
          pc' \in {"estimate", "aborted"}
                    \cup (IF prog = "wof" /\ adaptive THEN {"build"} ELSE {})
     /\ pc = "estimate" => pc' \in {"check", "aborted"}
     /\ pc = "check" => pc' \in {"adapt", "done"}
     /\ pc' = "done" => (pc \in {"check", "adapt"} /\ done')
     /\ pc = "adapt" => (pc' \in {"build", "done"} /\ (pc' = "build" <=> ~done'))
     /\ (pc = "adapt" /\ adapt_ret' = "true") => pc' = "done"]_vars

\* C7 witness: the loop ended right after an adapt() that returned true.
C7_Witness == pc = "done" /\ adapt_ret = "true" /\ done

\* C8: at DONE the coarse solution, the error estimate and the DOF count
\* belong to the same coarse space: the coarse space was not refined after
\* the last estimate.  The drivers that test a ceiling after adapt() break it.
C8_FinalResultsOfOneSpace ==
  pc = "done" =>
    /\ est_ver = space_ver
    /\ sln_ver # 0 => sln_ver = space_ver

C10_OnlyAdaptChangesCoarse ==
  [][(ndof' # ndof \/ space_ver' # space_ver) =>
       \/ (pc = "adapt" /\ ndof' >= ndof /\ space_ver' > space_ver)
       \/ (pc = "ts_begin" /\ ndof' <= ndof)]_vars

\* C10 witness: wall-on-fire in a later time step (after a derefinement),
\* adapt() has refined the coarse space and the DOF count has grown.
C10_Witness ==
  /\ prog = "wof"
  /\ ts >= 2
  /\ adapt_ret = "false"
  /\ ndof > BaseDof

\* Inside the loop body, between the reference build and adapt().
InBody == pc \in {"solve", "estimate", "check", "adapt"}

\* C11: in every adaptivity step the reference space is built from the
\* current coarse space (the one the previous step's adapt() left, never a
\* stale one) and has at least as many DOFs as that coarse space.
C11_NestedReference ==
  InBody => (ref_ver = space_ver /\ ndof_ref >= ndof)

\* C11 witness: a reference space built in a later step, from a coarse
\* space that adapt() has refined.
C11_Witness ==
  /\ pc = "solve"
  /\ iter >= 2
  /\ space_ver >= 2
  /\ ref_ver = space_ver
  /\ ndof_ref > ndof

\* C12: in the 1D layer-boundary loop adapt() is never called with the
\* coarse DOF count at or above NDOF_STOP, so the coarse DOF count never
\* exceeds NDOF_STOP by as much as one adapt() call can add.
C12_DofOvershootBounded ==
  prog = "lb1d" =>
    /\ pc = "adapt" => ndof < NDOF_STOP(prog)
    /\ ndof < NDOF_STOP(prog) + MaxDelta

\* C12 witness: the last adapt() took the coarse space beyond NDOF_STOP and
\* the stop test of the next iteration ended the loop on the DOF ceiling.
C12_Witness ==
  /\ prog = "lb1d"
  /\ pc = "done"
  /\ ndof > NDOF_STOP(prog)
  /\ n_adapt >= 1
  /\ adapt_ret = "none"
  /\ "dof" \in checked

\* The spatial adaptivity loop of a time step is about to run its first body.
LoopStarts == prog \in Transient /\ pc = "build" /\ iter = 0

\* C13: in the transient drivers the adaptivity state is reset at the start
\* of every time step: when the spatial adaptivity loop begins, the step
\* counter is 1 and the done flag is false, whatever the previous time step
\* left.
C13_StateResetPerTimeStep ==
  LoopStarts => (as = 1 /\ done = FALSE)

\* C13 witness: the loop of a later time step begins after a time step in
\* which adapt() refined the coarse space (so that step ended with the
\* counter above 1 and done true) and after the derefinement.
C13_Witness ==
  /\ LoopStarts
  /\ ts = 2
  /\ space_ver >= 3
  /\ as = 1

\* The error calculation of this loop body has run.
Estimated == pc \in {"check", "adapt"}

\* C14: in every adaptivity step the coarse solution given to the error
\* calculation was made in that same step, by projecting the step's
\* reference solution onto the current coarse space; the error calculation
\* never runs on a coarse solution that is unset or left from an earlier
\* step.  4-group-adapt, whose projection is commented out, breaks it.
C14_CoarseSolutionOfSameStep ==
  Estimated =>
    /\ sln_ver # 0
    /\ sln_ver = space_ver
    /\ sln_at = <<ts, iter>>

\* C15: a failure of diagnostic output inside the loop (a convergence graph
\* or screenshot that cannot be saved, the exact-error computation) does
\* not alter control flow: the loop goes on to the stop test as it does
\* when the output succeeds.  An exception out of the output breaks it.
C15_DiagnosticFailureHarmless ==
  [][(pc = "estimate" /\ diag' \in {"failed", "thrown"}) => pc' = "check"]_vars

\* C16: during the spatial adaptivity loop of a time step the previous time
\* level (sln_prev_time; C_prev_time and phi_prev_time) is not changed; it
\* is replaced only after the loop has finished.  wall-on-fire, which
\* stores the projection onto the reference space in sln_prev_time at the
\* top of every loop body, breaks it.
C16_PrevTimeFrozenInLoop ==
  [][sln_prev_time' # sln_prev_time => pc = "done"]_vars

\* The temporal error control of wall-on-fire acts on a temporal error of
\* the given class in this step.
TimeControl(cls) ==
  prog = "wof" /\ adaptive /\ pc = "solve" /\ time_err' = cls

\* C17: in wall-on-fire with adaptive time stepping, a temporal error above
\* TIME_ERR_TOL_UPPER multiplies the time step by TIME_STEP_DEC_RATIO and
\* restarts the loop body from the same current_time; adapt() is not
\* called, and the coarse space, the step counter, sln_prev_time and
\* current_time stay as they are.
C17_RestartKeepsSpatialState ==
  [][TimeControl("above") =>
       /\ time_step' = DecreaseTimeStep(time_step)
       /\ pc' = "build"
       /\ UNCHANGED <<ts, as, done, ndof, space_ver, n_adapt, adapt_ret,
                      sln_ver, est_ver, sln_prev_time, current_time>>]_vars

\* C17 witness: the time step has been shortened and the loop body is about
\* to be repeated.
C17_Witness ==
  /\ prog = "wof"
  /\ adaptive
  /\ pc = "build"
  /\ time_err = "above"
  /\ time_step.dec = 1
  /\ iter >= 1

Begun == {t \in 1..ts : t < ts \/ pc \notin {"ts_begin", "finished"}}

C20_AdaptiveOnlyIfEmbedded ==
  prog = "wof" =>
    /\ adaptive => embedded
    /\ TauChanges(time_step) > 0 => (adaptive /\ embedded)
    /\ time_err # "none" => embedded

\* C20 witness: adaptive time stepping was requested with a method that is
\* not embedded; the start-up check has turned it off and the loop runs.
C20_Witness ==
  /\ prog = "wof"
  /\ requested
  /\ ~embedded
  /\ ~adaptive
  /\ pc = "check"

\* Inside a run of the adaptivity loop or just behind it.
InLoopRun == pc \in {"build", "solve", "estimate", "check", "adapt", "done"}

\* C21 as stated: the step counter is incremented exactly once with every
\* adapt() call and at no other time, so all through a run of the loop and
\* behind it the counter is 1 plus the number of adapt() calls of the run.
C21_CounterCountsAdaptCalls ==
  InLoopRun => as = 1 + n_adapt

\* C21: at the start of every loop iteration, and through the iteration up
\* to its adapt() call, the step counter is 1 plus the number of adapt()
\* calls made so far in this run of the loop, in every driver.  (In the
\* last iteration the drivers differ: some count the stop branch, some do
\* not count an adapt() that returned true.)
C21_CounterAtIterationStart ==
  (pc = "build" \/ InBody) => as = 1 + n_adapt

\* C21 witness: a third loop iteration starts after two adapt() calls.
C21_Witness ==
  /\ pc = "build"
  /\ n_adapt = 2
  /\ as = 3

\* The values err_exact_rel can have at the stop test of a driver.
ExactValues(p) == IF HasExact(p) THEN ErrSamples(p) ELSE {NoErr}

\* C22: the stop decision is a function of the total error estimate, the
\* total DOF count and the step count alone: at the stop test, whatever
\* value the other mutable state read there (the exact error) has, the
\* decision on the same three inputs is the same.  The drivers that test
\* err_exact_rel break it.
C22_StopDecisionPure ==
  pc = "check" =>
    \A x \in ExactValues(prog) :
      StopTest(prog, err_est, x, ndof) = StopTest(prog, err_est, err_exact, ndof)

\* C23: in wall-on-fire the end of every time step advances current_time by
\* exactly the time step of the last Runge-Kutta step of that time step,
\* the one whose result is copied into sln_prev_time, with adaptive time
\* stepping on and off.  The lengthening of the time step after the solve
\* breaks it.
C23_TimeAdvancedBySolvedStep ==
  [][(prog = "wof" /\ pc = "done")
       => current_time' = Append(current_time, rk_time_step)]_vars

\* C24: in the loops that compute an exact error and an error estimate with
\* the one shared errorCalculator, whenever adapt() is called the element
\* errors the calculator holds are those of the coarse-vs-reference
\* calculation of the same iteration, which came after the exact-error
\* calculation and overwrote it; adapt() never works on coarse-vs-exact
\* element errors.
C24_AdaptOnEstimateErrors ==
  HasExact(prog) =>
    /\ pc = "adapt" => /\ calc_holds["errorCalculator"] = "est"
                       /\ est_ver = space_ver
                       /\ sln_at = <<ts, iter>>
    /\ adapt_ret # "none" => adapt_calc = <<"errorCalculator", "est">>

\* C24 witness: a driver with an exact solution has computed the exact
\* error and the estimate in one loop body and then called adapt(), which
\* refined.
C24_Witness ==
  /\ HasExact(prog)
  /\ err_exact # NoErr
  /\ err_est # NoErr
  /\ adapt_ret = "false"
  /\ adapt_calc = <<"errorCalculator", "est">>

\* C25: in the 4-group loop the body runs at most MAX_ADAPT_NUM - 1 times:
\* the counter starts at 1 and has gone up by one at the end of every
\* iteration, and as soon as it is >= MAX_ADAPT_NUM the loop has ended,
\* whatever adapt() returned and the DOF check found in that iteration.
C25_StepCeilingBoundsBodies ==
  prog = "g4" =>
    /\ iter <= MAX_ADAPT_NUM - 1
    /\ (pc = "build" \/ InBody) => (as = iter + (IF pc = "build" THEN 1 ELSE 0))
    /\ pc = "done" => as = iter + 1
    /\ (InLoopRun /\ as >= MAX_ADAPT_NUM) => (pc = "done" /\ done)

\* C25 witness: the 4-group loop has ended after MAX_ADAPT_NUM - 1 bodies
\* by the step ceiling alone: in the last one adapt() returned false and
\* the DOF count is below NDOF_STOP.
C25_Witness ==
  /\ prog = "g4"
  /\ pc = "done"
  /\ iter = MAX_ADAPT_NUM - 1
  /\ as = MAX_ADAPT_NUM
  /\ adapt_ret = "false"
  /\ ndof < NDOF_STOP(prog)

\* ------------------------------------------------------------------------
\* The drivers with a plain time-stepping loop: joukowski-profile (Euler
\* equations, with the records of a Continuity object on the disk) and
\* circular-obstacle (Navier-Stokes, Newton's method in every time step)
\* ------------------------------------------------------------------------

StepDrivers == {"joukowski", "obstacle"}

\* The time steps the CFL calculation can set, in time units.
TimeSteps == 1..MaxTau

\* double time_step = 1E-4: the initial time step, one time unit.
InitialTimeStep == 1

\* The constant initial condition the prev_* solutions are created with.
InitialCondition == [steps |-> 0, time |-> 0]

\* TAU, the fixed time step of circular-obstacle.
TAU == [dec |-> 0, inc |-> 0]

\* int num_time_steps = T_FINAL / TAU.
num_time_steps == MaxSteps

\* The values the variables of the adaptivity loops keep in these drivers.
AdaptIdle ==
  /\ requested = FALSE
  /\ adaptive = FALSE
  /\ embedded = FALSE
  /\ unref_freq = UNREF_FREQ
  /\ derefined = {}
  /\ sln_prev_time = [level |-> 0, on |-> 0]
  /\ time_err = "none"
  /\ rk_time_step = [dec |-> 0, inc |-> 0]
  /\ as = 1
  /\ done = FALSE
  /\ iter = 0
  /\ ndof = BaseDof
  /\ space_ver = 1
  /\ ref_ver = 0
  /\ ndof_ref = 0
  /\ sln_ver = 0
  /\ sln_at = <<0, 0>>
  /\ diag = "none"
  /\ est_ver = 0
  /\ group_err = <<>>
  /\ err_est = NoErr
  /\ err_exact = NoErr
  /\ calc_holds = [c \in Calculators |-> "none"]
  /\ adapt_ret = "none"
  /\ adapt_calc = <<"none", "none">>
  /\ n_adapt = 0
  /\ checked = {}

\* The state when main starts for the first time: nothing on the disk.
InitSteps ==
  /\ prog \in StepDrivers
  /\ pc = IF prog = "joukowski" THEN "start" ELSE "loop"
  /\ REUSE_SOLUTION \in (IF prog = "joukowski" THEN BOOLEAN ELSE {FALSE})
  /\ records = <<>>
  /\ t_now = 0
  /\ iteration = 0
  /\ time_step = IF prog = "joukowski" THEN InitialTimeStep ELSE TAU
  /\ prev_sln = InitialCondition
  /\ killed_at = <<>>
  /\ ts = 1
  /\ current_time = <<>>
  /\ vel_prev_time = [of |-> 0, kind |-> "zero"]
  /\ sln_vector = [of |-> 0, kind |-> "unset"]
  /\ solver_status = "none"
  /\ AdaptIdle

\* continuity.have_record_available(), get_last_record() and get_num().
HaveRecordAvailable(recs) == recs # <<>>

GetLastRecord(recs) == recs[Len(recs)]

GetNum(recs) == Len(recs)

\* continuity.add_record(t) and the save_* calls on the new last record.
AddRecord(recs, time, sln, tau) ==
  Append(recs, [time |-> time, sln |-> sln, time_step |-> tau])

\* The condition of the time-stepping loop: t < 10.0.
EulerLoopAgain(time) == time < EulerTFinal

\* joukowski-profile, main up to the time-stepping loop: the globals and
\* locals get their initial values; with REUSE_SOLUTION and a record on the
\* disk the solutions, the time step, t and iteration are taken from the
\* last record.  Then the loop condition is read.
JoukowskiStart ==
  /\ prog = "joukowski"
  /\ pc = "start"
  /\ IF REUSE_SOLUTION /\ HaveRecordAvailable(records)
     THEN LET r == GetLastRecord(records)
          IN  /\ prev_sln' = r.sln
              /\ time_step' = r.time_step
              /\ t_now' = r.time
              /\ iteration' = GetNum(records)
     ELSE /\ prev_sln' = InitialCondition
          /\ time_step' = InitialTimeStep
          /\ t_now' = 0
          /\ iteration' = 0
  /\ pc' = IF EulerLoopAgain(t_now') THEN "loop" ELSE "finished"
  /\ solver_status' = "none"
  /\ UNCHANGED <<prog, ts, current_time, REUSE_SOLUTION, records, killed_at,
                 vel_prev_time, sln_vector, adapt_vars>>

\* joukowski-profile, one body of the time-stepping loop with the t +=
\* time_step and the loop condition behind it: the step is solved with the
\* current time step and written into the prev_* solutions (a failed
\* solver ends the program in error()), the CFL calculation sets the next
\* time step, and with REUSE_SOLUTION a record is added under the time t of
\* the top of this body.
JoukowskiTimeStep ==
  /\ prog = "joukowski"
  /\ pc = "loop"
  /\ iteration' = iteration + 1
  /\ killed_at' = <<>>
  /\ \E ok \in BOOLEAN, tau \in TimeSteps :
       /\ solver_status' = IF ok THEN "ok" ELSE "failed"
       /\ IF ok
          THEN LET sln == [steps |-> prev_sln.steps + 1,
                           time  |-> prev_sln.time + time_step]
               IN  /\ prev_sln' = sln
                   /\ time_step' = tau
                   /\ records' = IF REUSE_SOLUTION
                                 THEN AddRecord(records, t_now, sln, tau)
                                 ELSE records
                   /\ t_now' = t_now + tau
                   /\ pc' = IF EulerLoopAgain(t_now + tau) THEN "loop"
                            ELSE "finished"
          ELSE /\ pc' = "aborted"
               /\ UNCHANGED <<prev_sln, time_step, records, t_now>>
  /\ UNCHANGED <<prog, ts, current_time, REUSE_SOLUTION, vel_prev_time,
                 sln_vector, adapt_vars>>

\* The run of joukowski-profile is interrupted at the top of the loop and
\* the program is started again; what is on the disk stays.
JoukowskiInterrupt ==
  /\ prog = "joukowski"
  /\ pc = "loop"
  /\ Len(records) < MaxRecords
  /\ killed_at' = <<t_now, iteration, prev_sln, time_step>>
  /\ pc' = "start"
  /\ UNCHANGED <<prog, ts, time_step, current_time, solver_status,
                 REUSE_SOLUTION, t_now, iteration, records, prev_sln,
                 vel_prev_time, sln_vector, adapt_vars>>

\* What newton.get_sln_vector() holds after a solve that threw: the last
\* iterate, which has not converged, or what it held before the solve.
FailedSolveOutcomes == {"iterate", "stale"}

SlnVectorAfter(ok, out, vec, step) ==
  IF ok THEN [of |-> step, kind |-> "converged"]
  ELSE IF out = "iterate" THEN [of |-> step, kind |-> "unconverged"]
  ELSE vec

\* What vector_to_solutions() on a vector that was never set can end in.
UnsetVectorOutcomes == {"crash", "garbage"}

\* circular-obstacle, one body of the time-stepping loop with the ts++ and
\* the loop condition behind it: current_time += TAU, newton.solve() in a
\* try whose handler only prints the message, then vector_to_solutions()
\* from newton.get_sln_vector() into the previous-time-level solutions.
ObstacleTimeStep ==
  /\ prog = "obstacle"
  /\ pc = "loop"
  /\ current_time' = Append(current_time, TAU)
  /\ \E ok \in BOOLEAN, out \in FailedSolveOutcomes,
        ub \in UnsetVectorOutcomes :
       LET vec == SlnVectorAfter(ok, out, sln_vector, ts)
       IN  /\ ok => out = "iterate"
           /\ vec.kind # "unset" => ub = "garbage"
           /\ solver_status' = IF ok THEN "ok" ELSE "failed"
           /\ sln_vector' = vec
           /\ IF vec.kind = "unset" /\ ub = "crash"
              THEN /\ pc' = "aborted"
                   /\ UNCHANGED <<vel_prev_time, ts>>
              ELSE /\ vel_prev_time' =
                        IF vec.kind = "unset"
                        THEN [of |-> ts, kind |-> "undefined"]
                        ELSE vec
                   /\ ts' = ts + 1
                   /\ pc' = IF ts + 1 <= num_time_steps THEN "loop"
                            ELSE "finished"
  /\ UNCHANGED <<prog, time_step, REUSE_SOLUTION, t_now, iteration, records,
                 prev_sln, killed_at, adapt_vars>>

NextSteps ==
  \/ JoukowskiStart
  \/ JoukowskiTimeStep
  \/ JoukowskiInterrupt
  \/ ObstacleTimeStep

SpecSteps == InitSteps /\ [][NextSteps]_vars

\* The run of joukowski-profile has just been resumed from a record.
Resumed ==
  /\ prog = "joukowski"
  /\ REUSE_SOLUTION
  /\ pc \in {"loop", "finished"}
  /\ killed_at # <<>>
  /\ HaveRecordAvailable(records)

\* C26: in joukowski-profile with REUSE_SOLUTION a run resumed from the
\* last saved record continues as the uninterrupted run would: t, the
\* solutions, the time step and the counter are those the interrupted run
\* had at the top of the loop, and t is the time the restored solutions
\* stand for on the clock of the loop.  The record saved under the time of
\* the top of the loop body breaks it.
C26_ResumeContinuesRun ==
  Resumed => <<t_now, iteration, prev_sln, time_step>> = killed_at

\* C27: in circular-obstacle a time step whose Newton solve fails leaves
\* xvel_prev_time, yvel_prev_time and p_prev_time unchanged; they are only
\* overwritten with the result of a solve that succeeded in the same time
\* step.  The unconditional vector_to_solutions() behind the try breaks it.
C27_FailedSolveKeepsPrevTime ==
  [][(prog = "obstacle" /\ pc = "loop" /\ solver_status' = "failed")
       => vel_prev_time' = vel_prev_time]_vars

====
